---- MODULE Spec2Model ----
(***************************************************************************)
(* Registration and login of the BrieflyAI authentication backend          *)
(* (app/routes/auth.py) over a relational store with READ COMMITTED        *)
(* transactions and the unique constraints declared in app/models.         *)
(*                                                                         *)
(* Strings are sequences of one-character strings, so that str.lower(),    *)
(* str.strip() and slicing are computed and not assumed.  An optional      *)
(* value (None or an object) is a sequence of length 0 or 1.               *)
(***************************************************************************)
EXTENDS Integers, Sequences, FiniteSets, TLC

\* ---------------------------------------------------------------- bounds
NumReq == 2          \* requests served (each by its own worker thread)
MaxInterests == 2    \* longest interests list of a request body
MaxClock == 1        \* latest reading of the wall clock, in minutes

\* ------------------------------------------------------ program constants
MAX_BCRYPT_LENGTH == 72
PASSWORD_MIN_LENGTH == 8
PASSWORD_MAX_LENGTH == 72
ACCESS_TOKEN_EXPIRE_MINUTES == 60
SECRET_KEY == "change-me-to-a-32-character-random-key-in-production"
ALGORITHM == "HS256"

Req == 1..NumReq

\* ------------------------------------------------------------ input sets
Emails == { <<"A", "@", "x">>, <<"a", "@", "x">>, <<"b", "@", "x">> }
Secret1 == <<"s", "e", "c", "r", "e", "t", "0", "1">>
Secret2 == <<"s", "e", "c", "r", "e", "t", "0", "2">>
Passwords == { Secret1, Secret2, <<"x">> }
RawLabels == { <<"A", "I">>, <<"a", "i">>, <<" ", "A", "I", " ">> }
Clock == 0..MaxClock

RECURSIVE SeqsUpTo(_, _)
SeqsUpTo(S, n) ==
    IF n = 0 THEN { <<>> }
    ELSE LET shorter == SeqsUpTo(S, n - 1)
         IN  shorter \cup { Append(s, x) : s \in {t \in shorter : Len(t) = n - 1}, x \in S }

\* The list ["AI", "ai", " AI "].
ExampleInterests == << <<"A", "I">>, <<"a", "i">>, <<" ", "A", "I", " ">> >>

RawInterests == SeqsUpTo(RawLabels, MaxInterests) \cup {ExampleInterests}

\* ------------------------------------------------------- string functions
\* str.lower()
LowerChar(c) ==
    CASE c = "A" -> "a"
      [] c = "I" -> "i"
      [] OTHER   -> c

Lower(s) == [i \in 1..Len(s) |-> LowerChar(s[i])]

\* str.strip()
RECURSIVE LStrip(_)
LStrip(s) == IF s # <<>> /\ Head(s) = " " THEN LStrip(Tail(s)) ELSE s

RECURSIVE RStrip(_)
RStrip(s) ==
    IF s # <<>> /\ s[Len(s)] = " " THEN RStrip(SubSeq(s, 1, Len(s) - 1)) ELSE s

Strip(s) == RStrip(LStrip(s))

\* plain[:n]
Truncate(s, n) == SubSeq(s, 1, IF Len(s) < n THEN Len(s) ELSE n)

Range(s) == { s[i] : i \in 1..Len(s) }

None == <<>>
Some(x) == <<x>>

\* --------------------------------------------------------------- schemas
\* RegisterRequest.password: min_length=8, max_length=72.
PasswordAllowed(p) == Len(p) >= PASSWORD_MIN_LENGTH /\ Len(p) <= PASSWORD_MAX_LENGTH

InterestsAsGiven(v) == IF v = <<>> THEN None ELSE Some(v)

\* RegisterRequest.interests_not_empty: the cleaned list, or ValueError.
RECURSIVE CleanFrom(_, _, _)
CleanFrom(v, i, cleaned) ==
    IF i > Len(v) THEN Some(cleaned)
    ELSE LET s == Strip(v[i])
         IN  IF s = <<>> THEN None
             ELSE IF s \notin Range(cleaned)
                  THEN CleanFrom(v, i + 1, Append(cleaned, s))
                  ELSE CleanFrom(v, i + 1, cleaned)

interests_not_empty(v) == IF v = <<>> THEN None ELSE CleanFrom(v, 1, <<>>)

\* --------------------------------------------------------------- security
\* hash_password: bcrypt of the truncated password (never the plain text).
hash_password(plain) ==
    [scheme |-> "bcrypt", digest_of |-> Truncate(plain, MAX_BCRYPT_LENGTH)]

\* pwd_context.verify: hashed is None for the "" placeholder, which passlib
\* cannot identify (UnknownHashError); otherwise the comparison.
pwd_context_verify(secret, hashed) ==
    IF hashed = None
    THEN [raised |-> Some("UnknownHashError"), value |-> FALSE]
    ELSE [raised |-> None,
          value  |-> hashed[1].scheme = "bcrypt" /\ hashed[1].digest_of = secret]

\* verify_password: any exception is swallowed and False returned.
verify_password(plain, hashed) ==
    LET out == pwd_context_verify(Truncate(plain, MAX_BCRYPT_LENGTH), hashed)
    IN  IF out.raised # None THEN FALSE ELSE out.value

create_access_token(subject, now) ==
    [sub |-> subject, exp |-> now + ACCESS_TOKEN_EXPIRE_MINUTES, iat |-> now,
     key |-> SECRET_KEY, alg |-> ALGORITHM]

\* decode_access_token at time `at`: the subject, or None.
decode_access_token(token, at) ==
    IF token.key = SECRET_KEY /\ token.alg = ALGORITHM /\ ~(token.exp < at)
    THEN Some(token.sub) ELSE None

\* -------------------------------------------------------------- responses
Response(st, c, m, h) ==
    [status |-> st, code |-> c, message |-> m, headers |-> h, access_token |-> None,
     token_type |-> ""]

Created == Response(201, "", "Account created successfully", {})
EmailAlreadyRegistered ==
    Response(409, "EMAIL_ALREADY_REGISTERED",
             "An account with this email address already exists.", {})
DatabaseError == Response(503, "DATABASE_ERROR", "Database connection failed", {})
HashingError == Response(500, "HASHING_ERROR", "Internal server error", {})
InvalidCredentials ==
    Response(401, "INVALID_CREDENTIALS", "Incorrect email or password.",
             { <<"WWW-Authenticate", "Bearer">> })
AccountDisabled ==
    Response(403, "ACCOUNT_DISABLED",
             "Your account has been deactivated. Please contact support.", {})
TokenError == Response(500, "TOKEN_ERROR", "Failed to generate token", {})
\* pydantic rejects the body before the handler runs
ValidationError == Response(422, "", "", {})
\* an exception no handler catches: the framework's bare 500
InternalServerError == Response(500, "", "Internal Server Error", {})
TokenResponse(token) ==
    [status |-> 200, code |-> "", message |-> "", headers |-> {},
     access_token |-> Some(token), token_type |-> "bearer"]

\* ------------------------------------------------------------------ state
VARIABLES
    users,            \* committed rows of table users
    interests,        \* committed rows of table interests
    user_id_seq,      \* users.id autoincrement
    interest_id_seq,  \* interests.id autoincrement
    session,          \* per request: the Session of get_db and its open transaction
    req               \* per request: body, position in the handler, locals

vars == <<users, interests, user_id_seq, interest_id_seq, session, req>>

store == <<users, interests, user_id_seq, interest_id_seq>>

NoBody == [email |-> <<>>, password |-> <<>>, interests |-> <<>>]

\* exc is the exception a try block of the handler raised, if any.
IdleRequest ==
    [pc |-> "idle", kind |-> "none", body |-> NoBody,
     interest_objs |-> <<>>, hashed_pwd |-> None, user |-> None,
     password_valid |-> FALSE, exc |-> None, resp |-> None]

NoSession == [state |-> "none", pending |-> {}]

\* The validated payload the handler reads (payload.interests is the cleaned list).
PayloadInterests(r) == interests_not_empty(req[r].body.interests)[1]

\* ------------------------------------------------------------------- Init
SeedInterest == [id |-> 1, name |-> <<"A", "I">>]
SeedUser ==
    [id |-> 1, email |-> <<"a", "@", "x">>, hashed_password |-> hash_password(Secret1),
     is_active |-> TRUE, interests |-> {1}]

\* The tables are empty, or hold what an earlier run committed.
Init ==
    /\ \/ /\ users = {}
          /\ interests = {}
          /\ user_id_seq = 1
          /\ interest_id_seq = 1
       \/ /\ users = {SeedUser}
          /\ interests = {SeedInterest}
          /\ user_id_seq = 2
          /\ interest_id_seq = 2
    /\ session = [r \in Req |-> NoSession]
    /\ req = [r \in Req |-> IdleRequest]

\* ------------------------------------------------------- store and session
\* Query.first(): None, or one of the matching rows.
First(rows) == IF rows = {} THEN {None} ELSE { Some(x) : x \in rows }

UsersByEmail(e) == { u \in users : u.email = e }

\* Rows of interests a statement of request r sees: the committed ones and
\* those its own transaction has flushed.
VisibleInterests(r) == interests \cup session[r].pending

InterestsByName(r, name) == { i \in VisibleInterests(r) : i.name = name }

\* The name the loop of register step 2 is at.
CurrentName(r) == PayloadInterests(r)[Len(req[r].interest_objs) + 1]

\* interests.name is unique: an INSERT waits for the open transaction that
\* inserted the same name.
WaitsFor(r, other) ==
    /\ other # r
    /\ req[r].pc = "interest_flush"
    /\ \E row \in session[other].pending : row.name = CurrentName(r)

RECURSIVE WaitPath(_, _, _)
WaitPath(a, b, n) ==
    \/ WaitsFor(a, b)
    \/ n > 1 /\ \E c \in Req : WaitsFor(a, c) /\ WaitPath(c, b, n - 1)

Deadlocked(r) == WaitPath(r, r, NumReq)

InterestNameTaken(name) == \E row \in interests : row.name = name

EmailTakenUnchecked(email) == FALSE

\* users.email is unique.
EmailTaken(email) == \E u \in users : u.email = email

\* Session.rollback(): the flushed rows of the open transaction are dropped.
Rollback(r) == session' = [session EXCEPT ![r].pending = {}]

CommitWithoutInterests(r) == interests

\* The interests table after request r commits.
CommitInterests(r) == interests \cup session[r].pending

\* ------------------------------------------------------- raise and return
\* The handler returns a response or raises an HTTPException.
Respond(r, response) ==
    req' = [req EXCEPT ![r].pc = "responded", ![r].resp = Some(response)]

\* A statement at `site` raised exception `e`; the try blocks around it
\* decided on `response`.
Raise(r, site, e, response) ==
    req' = [req EXCEPT ![r].pc = "responded",
                       ![r].exc = Some([type |-> e, at |-> site]),
                       ![r].resp = Some(response)]

\* register, step 1: except OperationalError.
EmailCheckExcept(e) ==
    IF e = "OperationalError" THEN DatabaseError ELSE InternalServerError

InterestExceptNothing(e) == InternalServerError

\* _get_or_create_interest: except OperationalError; register step 2
\* re-raises HTTPException and catches nothing else.
InterestExcept(e) ==
    IF e = "OperationalError" THEN DatabaseError ELSE InternalServerError

\* register, step 3: except ValueError.
HashExcept(e) == IF e = "ValueError" THEN HashingError ELSE InternalServerError

\* register, step 4: except IntegrityError, except OperationalError.
PersistExcept(e) ==
    CASE e = "IntegrityError"   -> EmailAlreadyRegistered
      [] e = "OperationalError" -> DatabaseError
      [] OTHER                  -> InternalServerError

\* login, step 1: except OperationalError.
LoginLookupExcept(e) ==
    IF e = "OperationalError" THEN DatabaseError ELSE InternalServerError

\* login, step 4: except Exception.
TokenExcept(e) == TokenError

\* ------------------------------------------------------ request lifecycle
\* A register request arrives: get_db opens the session, pydantic validates.
ReceiveRegister(r) ==
    /\ req[r].pc = "idle"
    /\ \E e \in Emails, p \in Passwords, v \in RawInterests :
         LET body == [email |-> e, password |-> p, interests |-> v]
         IN  req' = [req EXCEPT ![r] =
                 IF ~PasswordAllowed(p) \/ interests_not_empty(v) = None
                 THEN [IdleRequest EXCEPT !.kind = "register", !.body = body,
                                          !.pc = "responded",
                                          !.resp = Some(ValidationError)]
                 ELSE [IdleRequest EXCEPT !.kind = "register", !.body = body,
                                          !.pc = "email_check"]]
    /\ session' = [session EXCEPT ![r].state = "open"]
    /\ UNCHANGED store

\* A login request arrives.
ReceiveLogin(r) ==
    /\ req[r].pc = "idle"
    /\ \E e \in Emails, p \in Passwords :
         req' = [req EXCEPT ![r] =
             [IdleRequest EXCEPT !.kind = "login", !.pc = "lookup",
                  !.body = [email |-> e, password |-> p, interests |-> <<>>]]]
    /\ session' = [session EXCEPT ![r].state = "open"]
    /\ UNCHANGED store

CloseSessionOnReturn(r) ==
    /\ req[r].pc = "responded"
    /\ req[r].resp[1].status < 400
    /\ session[r].state = "open"
    /\ session' = [session EXCEPT ![r] = [state |-> "closed", pending |-> {}]]
    /\ req' = [req EXCEPT ![r] = [IdleRequest EXCEPT !.pc = "done"]]
    /\ UNCHANGED store

\* get_db's finally: db.close() ends the transaction, dropping what it had
\* not committed.  The request is over.
CloseSession(r) ==
    /\ req[r].pc = "responded"
    /\ session[r].state = "open"
    /\ session' = [session EXCEPT ![r] = [state |-> "closed", pending |-> {}]]
    /\ req' = [req EXCEPT ![r] = [IdleRequest EXCEPT !.pc = "done"]]
    /\ UNCHANGED store

\* ---------------------------------------------------------------- register
RegisterLookupEmailAsTyped(r) == req[r].body.email

\* payload.email.lower() of step 1.
RegisterLookupEmail(r) == Lower(req[r].body.email)

\* Step 1: duplicate email check.
RegisterEmailCheck(r) ==
    /\ req[r].pc = "email_check"
    /\ \E existing \in First(UsersByEmail(RegisterLookupEmail(r))) :
         IF existing # None
         THEN Respond(r, EmailAlreadyRegistered)
         ELSE req' = [req EXCEPT ![r].pc = "interest_query"]
    /\ UNCHANGED <<store, session>>

\* OperationalError in step 1.
RegisterEmailCheckFails(r) ==
    /\ req[r].pc = "email_check"
    /\ Raise(r, "email_check", "OperationalError", EmailCheckExcept("OperationalError"))
    /\ UNCHANGED <<store, session>>

\* After one interest is resolved: the next one, or step 3.
Resolved(r, row) ==
    LET objs == Append(req[r].interest_objs, row)
    IN  req' = [req EXCEPT ![r].interest_objs = objs,
                           ![r].pc = IF Len(objs) = Len(PayloadInterests(r))
                                     THEN "hash" ELSE "interest_query"]

\* _get_or_create_interest: the SELECT.
InterestQuery(r) ==
    /\ req[r].pc = "interest_query"
    /\ \E interest \in First(InterestsByName(r, CurrentName(r))) :
         IF interest = None
         THEN req' = [req EXCEPT ![r].pc = "interest_flush"]
         ELSE Resolved(r, interest[1])
    /\ UNCHANGED <<store, session>>

\* _get_or_create_interest: OperationalError in the SELECT.
InterestQueryFails(r) ==
    /\ req[r].pc = "interest_query"
    /\ Raise(r, "interest_query", "OperationalError", InterestExcept("OperationalError"))
    /\ UNCHANGED <<store, session>>

InterestFlushCommits(r) ==
    /\ req[r].pc = "interest_flush"
    /\ ~ \E other \in Req : WaitsFor(r, other)
    /\ interest_id_seq' = interest_id_seq + 1
    /\ IF InterestNameTaken(CurrentName(r))
       THEN /\ Raise(r, "interest_flush", "IntegrityError", InterestExcept("IntegrityError"))
            /\ UNCHANGED interests
       ELSE LET row == [id |-> interest_id_seq, name |-> CurrentName(r)]
            IN  /\ interests' = interests \cup {row}
                /\ Resolved(r, row)
    /\ UNCHANGED <<users, user_id_seq, session>>

\* _get_or_create_interest: db.add(interest); db.flush().  The INSERT waits
\* while another open transaction holds the name, and raises IntegrityError
\* when the name is committed.
InterestFlush(r) ==
    /\ req[r].pc = "interest_flush"
    /\ ~ \E other \in Req : WaitsFor(r, other)
    /\ interest_id_seq' = interest_id_seq + 1
    /\ IF InterestNameTaken(CurrentName(r))
       THEN /\ Raise(r, "interest_flush", "IntegrityError", InterestExcept("IntegrityError"))
            /\ UNCHANGED session
       ELSE LET row == [id |-> interest_id_seq, name |-> CurrentName(r)]
            IN  /\ session' = [session EXCEPT ![r].pending = @ \cup {row}]
                /\ Resolved(r, row)
    /\ UNCHANGED <<users, interests, user_id_seq>>

\* _get_or_create_interest: OperationalError in the flush.
InterestFlushFails(r) ==
    /\ req[r].pc = "interest_flush"
    /\ Raise(r, "interest_flush", "OperationalError", InterestExcept("OperationalError"))
    /\ UNCHANGED <<store, session>>

\* The store breaks a cycle of waiting INSERTs by failing one of them
\* (deadlock detected: an OperationalError).
InterestFlushDeadlock(r) ==
    /\ req[r].pc = "interest_flush"
    /\ Deadlocked(r)
    /\ Raise(r, "interest_flush", "OperationalError", InterestExcept("OperationalError"))
    /\ UNCHANGED <<store, session>>

\* Step 3: hash the password.
RegisterHash(r) ==
    /\ req[r].pc = "hash"
    /\ req' = [req EXCEPT ![r].hashed_pwd = Some(hash_password(req[r].body.password)),
                          ![r].pc = "persist"]
    /\ UNCHANGED <<store, session>>

\* hash_password raises ValueError.
RegisterHashFails(r) ==
    /\ req[r].pc = "hash"
    /\ Raise(r, "hash", "ValueError", HashExcept("ValueError"))
    /\ UNCHANGED <<store, session>>

\* The User row of step 3.
NewUser(r) ==
    [id |-> user_id_seq, email |-> Lower(req[r].body.email),
     hashed_password |-> req[r].hashed_pwd[1], is_active |-> TRUE,
     interests |-> { req[r].interest_objs[i].id : i \in 1..Len(req[r].interest_objs) }]

\* Step 4: db.add(new_user); db.commit().  IntegrityError on the email is
\* caught: rollback and 409.
RegisterPersist(r) ==
    /\ req[r].pc = "persist"
    /\ user_id_seq' = user_id_seq + 1
    /\ IF EmailTaken(NewUser(r).email)
       THEN /\ Rollback(r)
            /\ Raise(r, "persist", "IntegrityError", PersistExcept("IntegrityError"))
            /\ UNCHANGED <<users, interests>>
       ELSE /\ users' = users \cup {NewUser(r)}
            /\ interests' = CommitInterests(r)
            /\ session' = [session EXCEPT ![r].pending = {}]
            /\ Respond(r, Created)
    /\ UNCHANGED interest_id_seq

\* Step 4: OperationalError; rollback and 503.
RegisterPersistFails(r) ==
    /\ req[r].pc = "persist"
    /\ Rollback(r)
    /\ Raise(r, "persist", "OperationalError", PersistExcept("OperationalError"))
    /\ UNCHANGED store

\* ------------------------------------------------------------------- login
LoginLookupEmailAsTyped(r) == req[r].body.email

\* payload.email.lower() of step 1.
LoginLookupEmail(r) == Lower(req[r].body.email)

LoginLookupShortCircuit(r) ==
    /\ req[r].pc = "lookup"
    /\ \E user \in First(UsersByEmail(LoginLookupEmail(r))) :
         req' = [req EXCEPT ![r].user = user,
                            ![r].pc = IF user = None THEN "check" ELSE "verify"]
    /\ UNCHANGED <<store, session>>

\* Step 1: look up the user.
LoginLookup(r) ==
    /\ req[r].pc = "lookup"
    /\ \E user \in First(UsersByEmail(LoginLookupEmail(r))) :
         req' = [req EXCEPT ![r].user = user, ![r].pc = "verify"]
    /\ UNCHANGED <<store, session>>

\* Step 1: OperationalError.
LoginLookupFails(r) ==
    /\ req[r].pc = "lookup"
    /\ Raise(r, "lookup", "OperationalError", LoginLookupExcept("OperationalError"))
    /\ UNCHANGED <<store, session>>

\* The hash handed to verify_password: the user's, or the "" placeholder.
HashOf(user) == IF user # None THEN Some(user[1].hashed_password) ELSE None

\* Step 2: verify_password, always.
LoginVerify(r) ==
    /\ req[r].pc = "verify"
    /\ req' = [req EXCEPT
                 ![r].password_valid =
                     verify_password(req[r].body.password, HashOf(req[r].user)),
                 ![r].pc = "check"]
    /\ UNCHANGED <<store, session>>

LoginCheckActiveFirst(r) ==
    /\ req[r].pc = "check"
    /\ IF req[r].user # None /\ ~req[r].user[1].is_active
       THEN Respond(r, AccountDisabled)
       ELSE IF req[r].user = None \/ ~req[r].password_valid
            THEN Respond(r, InvalidCredentials)
            ELSE req' = [req EXCEPT ![r].pc = "token"]
    /\ UNCHANGED <<store, session>>

LoginCheckSkipsActive(r) ==
    /\ req[r].pc = "check"
    /\ IF req[r].user = None \/ ~req[r].password_valid
       THEN Respond(r, InvalidCredentials)
       ELSE req' = [req EXCEPT ![r].pc = "token"]
    /\ UNCHANGED <<store, session>>

\* Steps 2 and 3: the 401 and 403 exits.
LoginCheck(r) ==
    /\ req[r].pc = "check"
    /\ IF req[r].user = None \/ ~req[r].password_valid
       THEN Respond(r, InvalidCredentials)
       ELSE IF ~req[r].user[1].is_active
            THEN Respond(r, AccountDisabled)
            ELSE req' = [req EXCEPT ![r].pc = "token"]
    /\ UNCHANGED <<store, session>>

\* Step 4: issue the token.
LoginToken(r) ==
    /\ req[r].pc = "token"
    /\ \E now \in Clock :
         Respond(r, TokenResponse(create_access_token(req[r].user[1].email, now)))
    /\ UNCHANGED <<store, session>>

\* Step 4: create_access_token raises.
LoginTokenFails(r) ==
    /\ req[r].pc = "token"
    /\ Raise(r, "token", "JWTError", TokenExcept("JWTError"))
    /\ UNCHANGED <<store, session>>

\* ------------------------------------------------------------- environment
\* An administrator deactivates an account (outside the two endpoints).
AdminDeactivate ==
    /\ \E u \in users :
         /\ u.is_active
         /\ users' = (users \ {u}) \cup {[u EXCEPT !.is_active = FALSE]}
    /\ UNCHANGED <<interests, user_id_seq, interest_id_seq, session, req>>

\* ---------------------------------------------------------- specifications
Steps(r) ==
    \/ ReceiveRegister(r)
    \/ ReceiveLogin(r)
    \/ RegisterEmailCheck(r)
    \/ InterestQuery(r)
    \/ InterestFlush(r)
    \/ InterestFlushDeadlock(r)
    \/ RegisterHash(r)
    \/ RegisterPersist(r)
    \/ LoginLookup(r)
    \/ LoginVerify(r)
    \/ LoginCheck(r)
    \/ LoginToken(r)
    \/ CloseSession(r)

Faults(r) ==
    \/ RegisterEmailCheckFails(r)
    \/ InterestQueryFails(r)
    \/ InterestFlushFails(r)
    \/ RegisterHashFails(r)
    \/ RegisterPersistFails(r)
    \/ LoginLookupFails(r)
    \/ LoginTokenFails(r)

\* The store reachable and the libraries working.
NextReliable == AdminDeactivate \/ \E r \in Req : Steps(r)

Next == AdminDeactivate \/ \E r \in Req : Steps(r) \/ Faults(r)

\* Every request may hit a connectivity or library failure at each step.
Spec == Init /\ [][Next]_vars

\* No connectivity or library failure.
SpecReliable == Init /\ [][NextReliable]_vars

\* What the worker thread of request r does once the request has arrived.
Handle(r) ==
    \/ Faults(r)
    \/ RegisterEmailCheck(r)
    \/ InterestQuery(r)
    \/ InterestFlush(r)
    \/ InterestFlushDeadlock(r)
    \/ RegisterHash(r)
    \/ RegisterPersist(r)
    \/ LoginLookup(r)
    \/ LoginVerify(r)
    \/ LoginCheck(r)
    \/ LoginToken(r)
    \/ CloseSession(r)

\* Spec with every worker thread scheduled: a handler that can take its next
\* step (or have it fail) eventually does.
SpecFair == Spec /\ \A r \in Req : WF_vars(Handle(r))

\* ------------------------------------------------------------ properties
Responded(r) == req[r].pc = "responded"

Resp(r) == req[r].resp[1]

IsRegister(r) == req[r].kind = "register"

IsLogin(r) == req[r].kind = "login"

\* Request r raised exception e at site.
Raised(r, e, site) == req[r].exc = Some([type |-> e, at |-> site])

\* Request r got past the duplicate email check of step 1.
PastEmailCheck(r) ==
    req[r].pc \in {"interest_query", "interest_flush", "hash", "persist"}

\* The committed account of email e.
Account(e) == CHOOSE u \in users : u.email = e

TopicNames(ids) == { row.name : row \in {i \in interests : i.id \in ids} }

StrippedLabels(v) == { Strip(v[i]) : i \in 1..Len(v) }

\* C1: no two committed accounts have the same email, whatever register
\* requests ran and however they interleaved.
C1_EmailUnique == \A u1, u2 \in users : u1.email = u2.email => u1 = u2

\* Two requests with the same email both passed step 1; one committed and the
\* other's commit hit the unique constraint.
C1_Witness ==
    \E r1, r2 \in Req :
        /\ r1 # r2
        /\ Responded(r1) /\ Responded(r2)
        /\ Lower(req[r1].body.email) = Lower(req[r2].body.email)
        /\ Resp(r1) = Created
        /\ Raised(r2, "IntegrityError", "persist")

\* Request r ends in this step because an INSERT of a topic failed.
TopicInsertFails(r) == req'[r].exc # None /\ req'[r].exc[1].at = "interest_flush"

\* C2 as stated: a register request whose email was not yet committed at the
\* duplicate check ends with 201, one more account and all its labels stored,
\* whatever runs concurrently.  (Requests ended by a failed topic INSERT are
\* left to C10.)
C2_Original ==
    [][\A r \in Req :
         (PastEmailCheck(r) /\ req'[r].pc = "responded" /\ ~TopicInsertFails(r))
         => /\ req'[r].resp = Some(Created)
            /\ Cardinality(users') = Cardinality(users) + 1
            /\ \A n \in Range(PayloadInterests(r)) :
                 \E row \in interests' : row.name = n]_vars

\* C2 amended: when a register request ends with 201, its commit added exactly
\* one account and every label of its de-duplicated list is a committed topic
\* from then on (committed topics are never removed).
C2_SuccessEffects ==
    [][/\ \A r \in Req :
            (IsRegister(r) /\ req[r].resp = None /\ req'[r].resp = Some(Created))
            => /\ Cardinality(users') = Cardinality(users) + 1
               /\ \A n \in Range(PayloadInterests(r)) :
                    \E row \in interests' : row.name = n
       /\ \A row \in interests : row \in interests']_vars

\* A request that created two topics has committed while the other request
\* was under way.
C2_Witness ==
    \E r, other \in Req :
        /\ Responded(r) /\ IsRegister(r) /\ Resp(r) = Created
        /\ Len(PayloadInterests(r)) = 2
        /\ Cardinality(TopicNames(Account(Lower(req[r].body.email)).interests)) = 2
        /\ req[other].pc \notin {"idle", "done", "responded"}

\* C3: once an account with email E is committed it stays, and a register
\* request whose email equals E ignoring case is answered 409
\* EMAIL_ALREADY_REGISTERED by its duplicate check, which creates no account.
C3_LaterDuplicateRejected ==
    [][/\ \A u \in users : \E v \in users' : v.email = u.email
       /\ \A r \in Req :
            (/\ req[r].pc = "email_check"
             /\ \E u \in users : Lower(u.email) = Lower(req[r].body.email)
             /\ req'[r] # req[r])
            => /\ req'[r].pc = "responded"
               /\ req'[r].resp = Some(EmailAlreadyRegistered)
               /\ users' = users]_vars

\* The email was typed in another case than the stored one and the duplicate
\* check (not the commit) rejected it.
C3_Witness ==
    \E r \in Req :
        /\ Responded(r) /\ IsRegister(r)
        /\ Resp(r) = EmailAlreadyRegistered
        /\ req[r].exc = None
        /\ req[r].body.email # Lower(req[r].body.email)

\* Labels a and b differ only by surrounding whitespace or letter case.
SameLabel(a, b) == Lower(Strip(a)) = Lower(Strip(b))

\* The first label of v that differs from v[i] only by whitespace or case.
FirstOccurrence(v, i) ==
    v[CHOOSE k \in 1..i : SameLabel(v[k], v[i]) /\ \A j \in 1..(k - 1) : ~SameLabel(v[j], v[i])]

\* C4 as stated: after a successful registration, labels of the request that
\* differ only by whitespace or letter case are one stored topic, named as the
\* trimmed first occurrence, and the account has exactly that one topic for them.
C4_Original ==
    \A r \in Req :
        (Responded(r) /\ IsRegister(r) /\ Resp(r) = Created)
        => LET v == req[r].body.interests
               u == Account(Lower(req[r].body.email))
           IN  \A i \in 1..Len(v) :
                   LET variants == { Strip(v[j]) : j \in {k \in 1..Len(v) : SameLabel(v[k], v[i])} }
                   IN  /\ { row.name : row \in {t \in interests : t.name \in variants} }
                            = { Strip(FirstOccurrence(v, i)) }
                       /\ { n \in TopicNames(u.interests) : SameLabel(n, v[i]) }
                            = { Strip(FirstOccurrence(v, i)) }

\* C4 amended: after a successful registration every trimmed label of the
\* request is stored exactly once under exactly that name, and the account's
\* topics are exactly the distinct trimmed labels: labels that differ only by
\* surrounding whitespace are one topic, labels that differ by letter case
\* are different topics.
C4_TrimmedDistinct ==
    \A r \in Req :
        (Responded(r) /\ IsRegister(r) /\ Resp(r) = Created)
        => LET names == StrippedLabels(req[r].body.interests)
               u == Account(Lower(req[r].body.email))
           IN  /\ \A n \in names : Cardinality({row \in interests : row.name = n}) = 1
               /\ TopicNames(u.interests) = names
               /\ Cardinality(u.interests) = Cardinality(names)

\* The list ["AI", "ai", " AI "] was registered: two topics, "AI" and "ai".
C4_Witness ==
    \E r \in Req :
        /\ Responded(r) /\ IsRegister(r) /\ Resp(r) = Created
        /\ req[r].body.interests = ExampleInterests
        /\ TopicNames(Account(Lower(req[r].body.email)).interests)
             = { <<"A", "I">>, <<"a", "i">> }

\* Login request r named an email no account has.
UnknownEmail(r) ==
    /\ IsLogin(r) /\ Responded(r)
    /\ ~ \E u \in users : Lower(u.email) = Lower(req[r].body.email)

\* Login request r found an account and gave a wrong password.
WrongPassword(r) ==
    /\ IsLogin(r) /\ Responded(r)
    /\ req[r].user # None
    /\ ~verify_password(req[r].body.password, HashOf(req[r].user))

\* C5: a login for an unknown email and a login with a wrong password for an
\* existing account (active or not) get the same response: 401
\* INVALID_CREDENTIALS, same message, same headers.
C5_SameRejection ==
    \A r1, r2 \in Req :
        (UnknownEmail(r1) /\ WrongPassword(r2))
        => /\ Resp(r1) = Resp(r2)
           /\ Resp(r1) = InvalidCredentials

\* Both kinds of login have been answered, the wrong password one for an
\* inactive account.
C5_Witness ==
    \E r1, r2 \in Req :
        /\ UnknownEmail(r1) /\ WrongPassword(r2)
        /\ ~req[r2].user[1].is_active

\* Login request r found an inactive account and gave its password.
InactiveCorrect(r) ==
    /\ req[r].user # None
    /\ ~req[r].user[1].is_active
    /\ verify_password(req[r].body.password, HashOf(req[r].user))

\* C6: a login that found an inactive account and gave the correct password
\* is answered 403 ACCOUNT_DISABLED (no 401, no token), and 403 is answered
\* only after the lookup found the account and the password verified.
C6_DisabledAfterVerified ==
    \A r \in Req :
        (IsLogin(r) /\ Responded(r))
        => /\ InactiveCorrect(r) => Resp(r) = AccountDisabled
           /\ Resp(r) = AccountDisabled => InactiveCorrect(r)

C6_Witness ==
    \E r \in Req :
        /\ IsLogin(r) /\ Responded(r)
        /\ InactiveCorrect(r)
        /\ Resp(r).status = 403

\* Login request r found an active account and gave its password.
ActiveCorrect(r) ==
    /\ req[r].user # None
    /\ req[r].user[1].is_active
    /\ verify_password(req[r].body.password, HashOf(req[r].user))

\* The answers of login: a token exactly for an active account and its
\* password; it decodes to the stored email at every time up to its expiry.
C7_Answered ==
    \A r \in Req :
        Responded(r)
        => /\ (IsLogin(r) /\ ActiveCorrect(r))
              => /\ Resp(r).status = 200
                 /\ Resp(r).token_type = "bearer"
                 /\ Resp(r).access_token # None
                 /\ \A at \in 0..Resp(r).access_token[1].exp :
                      decode_access_token(Resp(r).access_token[1], at)
                        = Some(req[r].user[1].email)
                 /\ \E u \in users : u.email = Resp(r).access_token[1].sub
           /\ Resp(r).access_token # None => (IsLogin(r) /\ ActiveCorrect(r))

\* The lookup of login finds the account whose email equals the typed one
\* ignoring case, when there is one.
C7_Lookup ==
    \A r \in Req :
        (req[r].pc = "lookup" /\ req'[r] # req[r])
        => /\ req'[r].pc = "verify"
           /\ req'[r].user \in
                First({u \in users : Lower(u.email) = Lower(req[r].body.email)})

\* C7: a login with the email in any letter case and the correct password of
\* an active account is answered 200 with token_type "bearer" and a token that
\* decodes, before expiry, to the account's stored email; no other path
\* issues a token.
C7_TokenForAccount == [](C7_Answered) /\ [][C7_Lookup]_vars

\* The email was typed in upper case; the token carries the stored email.
C7_Witness ==
    \E r \in Req :
        /\ IsLogin(r) /\ Responded(r)
        /\ req[r].body.email = <<"A", "@", "x">>
        /\ Resp(r).access_token # None
        /\ Resp(r).access_token[1].sub = <<"a", "@", "x">>

DatabaseSites == {"email_check", "interest_query", "interest_flush", "persist", "lookup"}

\* C8: an OperationalError at any read or write of register or login ends the
\* request at once with 503 DATABASE_ERROR, that step changes nothing
\* committed, and a request that has responded commits nothing later.
C8_DatabaseUnavailable ==
    [][\A r \in Req :
         /\ (/\ req[r].exc = None
             /\ req'[r].exc # None
             /\ req'[r].exc[1].type = "OperationalError")
            => /\ req[r].pc \in DatabaseSites
               /\ req'[r].exc[1].at = req[r].pc
               /\ req'[r].pc = "responded"
               /\ req'[r].resp = Some(DatabaseError)
               /\ users' = users /\ interests' = interests
               /\ session'[r].pending \subseteq session[r].pending
         /\ (Responded(r) /\ req'[r] # req[r])
            => (users' = users /\ interests' = interests)]_vars

\* The commit of a request that had flushed a new topic failed.
C8_Witness ==
    \E r \in Req :
        /\ Responded(r) /\ IsRegister(r)
        /\ Raised(r, "OperationalError", "persist")
        /\ Resp(r).status = 503
        /\ interest_id_seq > 1
        /\ session[r].pending = {}

\* Register request r passed the duplicate email check.
PassedEmailCheck(r) ==
    /\ IsRegister(r) /\ Responded(r)
    /\ Resp(r).status # 422
    /\ ~(Resp(r) = EmailAlreadyRegistered /\ req[r].exc = None)

\* Request r lost the race: IntegrityError at commit, rolled back, 409.
LostAtCommit(r) ==
    /\ Raised(r, "IntegrityError", "persist")
    /\ Resp(r) = EmailAlreadyRegistered
    /\ session[r].pending = {}

\* C9 as stated: of two register requests with the same email that both
\* passed the duplicate check, one is answered 201 and the other hits the
\* unique constraint at commit, rolls back and is answered 409.
C9_Original ==
    \A r1, r2 \in Req :
        (/\ r1 # r2
         /\ PassedEmailCheck(r1) /\ PassedEmailCheck(r2)
         /\ Lower(req[r1].body.email) = Lower(req[r2].body.email))
        => \/ Resp(r1) = Created /\ LostAtCommit(r2)
           \/ Resp(r2) = Created /\ LostAtCommit(r1)

\* C10 as stated: a register request whose topic INSERT raised IntegrityError,
\* because a request with another email committed the same new label, is
\* answered 503 or 409.
C10_Original ==
    \A r, other \in Req :
        (/\ IsRegister(r) /\ Responded(r)
         /\ Raised(r, "IntegrityError", "interest_flush")
         /\ IsRegister(other) /\ Responded(other) /\ Resp(other) = Created
         /\ Lower(req[other].body.email) # Lower(req[r].body.email))
        => Resp(r).status \in {503, 409}

\* What request r has flushed is in no committed row, is referenced by no
\* committed account and is seen by no other request; identifiers are never
\* handed out twice, so a dropped row cannot come back.
C11_Isolated ==
    \A r \in Req :
        \A row \in session[r].pending :
            /\ row \notin interests
            /\ row.id < interest_id_seq
            /\ \A t \in interests : t.id # row.id /\ t.id < interest_id_seq
            /\ \A u \in users : row.id \notin u.interests
            /\ \A other \in Req \ {r} :
                 \A seen \in VisibleInterests(other) : seen.id # row.id

\* The step in which request r commits: it is answered 201, and its account
\* and all the topics it flushed enter the store together.
C11_Commit(r) ==
    /\ req[r].pc = "persist"
    /\ req'[r].resp = Some(Created)
    /\ NewUser(r) \notin users
    /\ users' = users \cup {NewUser(r)}
    /\ interests' = interests \cup session[r].pending
    /\ session'[r].pending = {}

\* The rows of users and interests a step adds to the store.
C11_Added == (users' \ users) \cup (interests' \ interests)

\* Every step: rows enter the store only by a commit; a register request
\* that ends in an error has committed nothing; the flushed rows of a request
\* leave its transaction either all committed with the account or all
\* dropped; and the session of a finished request holds nothing.
C11_Step ==
    /\ (\E row \in C11_Added : \A old \in users \cup interests : old.id # row.id)
       => \E r \in Req : C11_Commit(r)
    /\ \A r \in Req :
         /\ (/\ IsRegister(r) /\ req[r].resp = None
             /\ req'[r].resp \notin {None, Some(Created)})
            => /\ users' = users /\ interests' = interests
               /\ \A row \in session[r].pending : row \notin interests'
         /\ (session[r].pending \ session'[r].pending # {})
            => \/ C11_Commit(r)
               \/ /\ session'[r].pending = {}
                  /\ users' = users /\ interests' = interests
                  /\ (req[r].resp # None \/ req'[r].resp # None)
                  /\ Some(Created) \notin {req[r].resp, req'[r].resp}
         /\ req'[r].pc = "done" => session'[r].pending = {}

\* C11: the writes of a register request are all-or-nothing.  A request that
\* ends in an error after it flushed new topics (failed hashing, uniqueness
\* violation or lost connection at commit, failed topic INSERT) leaves neither
\* its account nor any topic it inserted in the committed store, and topics
\* and account become visible to other requests only together, at the commit.
C11_AllOrNothing == [](C11_Isolated) /\ [][C11_Step]_vars

\* A request flushed a new topic, lost the commit to the unique constraint
\* and rolled back: the topic it inserted is not in the store.
C11_Witness ==
    \E r \in Req :
        /\ Responded(r) /\ IsRegister(r)
        /\ Raised(r, "IntegrityError", "persist")
        /\ session[r].pending = {}
        /\ \E i \in 1..Len(req[r].interest_objs) :
             \A t \in interests : t.id # req[r].interest_objs[i].id

\* The session of request r is open exactly from the arrival of the request
\* to the end of it, and holds uncommitted rows only while it is open.
C12_Scoped ==
    \A r \in Req :
        /\ session[r].state = "none" <=> req[r].pc = "idle"
        /\ session[r].state = "closed" <=> req[r].pc = "done"
        /\ session[r].state = "open" <=> req[r].pc \notin {"idle", "done"}
        /\ session[r].state # "open" => session[r].pending = {}
        /\ Responded(r) => ENABLED CloseSession(r)

\* Every step: a session is opened once, by the arrival of its request, and
\* closed once, after the handler has returned or raised; a closed session
\* stays closed; and only the steps of request r touch the session of r.
C12_Step ==
    \A r \in Req :
        /\ session'[r].state # session[r].state
           => \/ /\ session[r].state = "none" /\ session'[r].state = "open"
                 /\ req[r].pc = "idle"
              \/ /\ session[r].state = "open" /\ session'[r].state = "closed"
                 /\ Responded(r) /\ req'[r].pc = "done"
        /\ session'[r] # session[r]
           => /\ req'[r] # req[r]
              /\ \A other \in Req \ {r} :
                   req'[other] = req[other] /\ session'[other] = session[other]

\* C12: every request that acquired a session releases it exactly once when
\* the request ends, on every exit path of register and login (return, HTTP
\* error, unexpected exception); no session stays open after its request has
\* finished, and no request uses the session of another.  (A session leaves
\* "open" only to "closed" and never returns, so "from some point on no
\* session is open" says that every opened session is closed.)
C12_SessionReleased ==
    /\ [](C12_Scoped)
    /\ [][C12_Step]_vars
    /\ <>[](\A r \in Req : session[r].state # "open")

\* One request was ended by an exception no handler catches and its session
\* is already closed; the next one has just been answered, its session still open.
C12_Witness ==
    \E r, other \in Req :
        /\ req[r].pc = "done" /\ session[r].state = "closed"
        /\ Responded(other) /\ session[other].state = "open"
        /\ Resp(other) = InternalServerError
        /\ session[other].pending # {}

\* The hash login passes to verify_password for the looked-up user: the
\* stored one, or the empty placeholder.
C13_HashArgument(user) == IF user = None THEN None ELSE Some(user[1].hashed_password)

\* The outcome of request r is decided in this step: an answer, or the
\* decision to issue a token.
C13_Decided(r) ==
    \/ req[r].resp = None /\ req'[r].resp # None
    \/ req[r].pc # "token" /\ req'[r].pc = "token"

\* Every step of a login request: a completed lookup leads to the
\* verification, found or not; the verification runs on the typed password
\* and the user's hash or the placeholder, and decides nothing itself; it is
\* entered only from the lookup and the lookup only from the arrival; the
\* outcome is decided only after it; and when no account was found it has
\* returned False and the answer is the 401, with no exception raised.
C13_Step ==
    \A r \in Req :
        (req'[r] # req[r] /\ (IsLogin(r) \/ req'[r].kind = "login"))
        => /\ req[r].pc = "lookup"
              => \/ req'[r].pc = "verify" /\ req'[r].resp = None
                 \/ /\ req'[r].pc = "responded"
                    /\ req'[r].exc = Some([type |-> "OperationalError", at |-> "lookup"])
           /\ req[r].pc = "verify"
              => /\ req'[r].pc = "check"
                 /\ req'[r].resp = None /\ req'[r].exc = None
                 /\ req'[r].user = req[r].user
                 /\ req'[r].password_valid
                      = verify_password(req[r].body.password, C13_HashArgument(req[r].user))
           /\ req'[r].pc = "lookup" => req[r].pc = "idle"
           /\ req'[r].pc = "verify" => req[r].pc = "lookup"
           /\ req'[r].pc = "check" => req[r].pc = "verify"
           /\ C13_Decided(r)
              => \/ req[r].pc \in {"check", "token"}
                 \/ req[r].pc = "lookup" /\ req'[r].exc # None
           /\ (req[r].pc = "check" /\ req[r].user = None)
              => /\ pwd_context_verify(req[r].body.password, None).raised # None
                 /\ req[r].password_valid = FALSE
                 /\ req'[r].resp = Some(InvalidCredentials)
                 /\ req'[r].exc = None

\* C13: in every login request whose lookup completes, verify_password is
\* invoked exactly once before the outcome is decided, whether or not an
\* account was found; with no account it gets the empty placeholder hash,
\* returns False and does not raise, and the request is answered 401
\* INVALID_CREDENTIALS, not an internal fault.
C13_AlwaysVerified == [][C13_Step]_vars

\* A login for an email no account has, with the password of an existing
\* account, was verified against the placeholder and answered 401.
C13_Witness ==
    \E r \in Req :
        /\ IsLogin(r) /\ Responded(r)
        /\ req[r].user = None
        /\ req[r].body.email = <<"b", "@", "x">>
        /\ req[r].body.password = Secret1
        /\ \E u \in users : verify_password(Secret1, Some(u.hashed_password))
        /\ req[r].password_valid = FALSE
        /\ req[r].exc = None
        /\ Resp(r) = InvalidCredentials

====
